---- MODULE Spec2Model ----
(***************************************************************************)
(* SlickHash (src/src/lib.rs): a block-structured open-addressing table    *)
(* with per-block offset/gap/threshold metadata and a backyard map.        *)
(*                                                                         *)
(* The table is modelled cell by cell.  Keys are the integers              *)
(* 0..NumKeys-1 (key 0 is also the key of a default-constructed cell).     *)
(* The two hashers (std DefaultHasher, ahash AHasher) are deterministic    *)
(* functions of the key that live outside the repository; they are         *)
(* modelled by the fixed tables DefaultHasherFinish and AHasherFinish      *)
(* whose values range over 0..U64Max, U64Max standing for u64::MAX at a    *)
(* reduced hash width.  The scaling of a hash into a block index or a      *)
(* threshold is computed as the code computes it: hash / u64::MAX * n,     *)
(* truncated, so a hash equal to u64::MAX scales to n itself.              *)
(*                                                                         *)
(* Two specifications run the same operations on two key populations:      *)
(* Spec on the keys 0..NumKeys-1, spread over all blocks and including a   *)
(* key at the top of the block hash range, CrowdSpec on the keys 11..19,   *)
(* which crowd blocks 0 and 1.  NewSpec runs the construction alone, for   *)
(* every capacity up to MaxCapacity.                                       *)
(***************************************************************************)
EXTENDS Integers, Sequences, FiniteSets, TLC

\* ---------------------------------------------------------------- bounds
\* number of blocks of the table under test (capacity / block_size)
NumBlocks == 3
\* block_size hyper parameter (10 in SlickHash::new), reduced for checking
BlockSize == 2
\* keys offered to the operations are 0..NumKeys-1
NumKeys == 8
\* values offered to try_insert are 1..MaxVal
MaxVal == 2

\* u64::MAX at the model's hash width
U64Max == 12
\* the largest capacity handed to with_capacity when construction is checked on its own
MaxCapacity == 16

Keys == 0 .. (NumKeys - 1)
Values == 1 .. MaxVal
\* the pairs offered to try_insert: key k with the value (k mod MaxVal) + 1, so that
\* neighbouring keys carry different values, and key 0 with every value
Inputs == { input \in Keys \X Values :
              input[2] = (input[1] % MaxVal) + 1 \/ input[1] = 0 }

\* --------------------------------------------------------- hyper parameters
block_size == BlockSize
max_slick_size == block_size * 2
max_offset == block_size
max_threshold == block_size
capacity == NumBlocks * block_size
main_table_size == capacity
number_of_blocks == main_table_size \div block_size

Min2(a, b) == IF a < b THEN a ELSE b

\* --------------------------------------------------------------- hashers
\* hasher.finish() of DefaultHasher, per key (entry k+1 is key k)
DefaultHasherFinish == << 0, 1, 2, 4, 5, 8, 9, 12, 3, 6, 10,
                         0, 1, 2, 3, 1, 4, 5, 6, 7 >>
\* hasher.finish() of AHasher, per key (entry k+1 is key k)
AHasherFinish == << 0, 6, 7, 1, 8, 12, 12, 0, 6, 12, 3,
                   0, 6, 7, 12, 12, 12, 0, 6, 12 >>

\* ((hash / u64::MAX) * number_of_blocks) as usize
hash_block_index(key) == (DefaultHasherFinish[key + 1] * number_of_blocks) \div U64Max

\* ((hash / u64::MAX) * max_threshold) as usize
hash_threshold(key) == (AHasherFinish[key + 1] * max_threshold) \div U64Max

\* -------------------------------------------------------------- the table
\* A table value `self` is the record
\*   [meta_data, main_table, backyard, no_elements_in_main_table, panic]
\* meta_data[i] = [offset, gap, threshold] for block i, main_table[p] = <<key, value>>
\* for cell p, backyard a function from its keys to their values.  panic is set by
\* a failed assert!, an index out of bounds or an unsigned subtraction below zero;
\* the steps after it are not executed.

Blocks == 0 .. (number_of_blocks - 1)
Cells == 0 .. (main_table_size - 1)

SlickHashMetaData(o, g, t) == [offset |-> o, gap |-> g, threshold |-> t]

\* SlickHash::new(capacity)
new == [ meta_data |-> [i \in Blocks |-> SlickHashMetaData(0, block_size, 0)],
         main_table |-> [p \in Cells |-> <<0, 0>>],
         backyard |-> [k \in {} |-> 0],
         no_elements_in_main_table |-> 0,
         panic |-> (main_table_size % block_size # 0) ]

Panic(self) == [self EXCEPT !.panic = TRUE]

\* SlickHash::new(capacity) for any capacity: the table it returns, with its
\* main_table_size and number_of_blocks; panic where assert_eq! fails, before anything
\* is allocated
SlickHashNew(capacity_given) ==
    [ main_table_size |-> capacity_given,
      number_of_blocks |-> capacity_given \div block_size,
      meta_data |-> [i \in 0 .. ((capacity_given \div block_size) - 1) |->
                       SlickHashMetaData(0, block_size, 0)],
      main_table |-> [p \in 0 .. (capacity_given - 1) |-> <<0, 0>>],
      backyard |-> [k \in {} |-> 0],
      no_elements_in_main_table |-> 0,
      panic |-> (capacity_given % block_size # 0) ]

\* a Capacity: a usize, or WithMargin(capacity, epsilon) with epsilon counted in halves
Usize(n) == [kind |-> "usize", capacity |-> n]
WithMargin(n, halves) == [kind |-> "WithMargin", capacity |-> n, halves |-> halves]

\* Capacity::capacity: self for a usize, ((1.0 + epsilon) * capacity as f64) as usize
\* for a WithMargin
CapacityOf(request) ==
    IF request.kind = "usize" THEN request.capacity
    ELSE ((2 + request.halves) * request.capacity) \div 2

\* with_capacity(capacity: impl Capacity)
with_capacity(request) == SlickHashNew(CapacityOf(request))

block_start(self, block_index) ==
    block_size * block_index + self.meta_data[block_index].offset

block_end(self, block_index) ==
    IF block_index = number_of_blocks - 1
    THEN main_table_size - self.meta_data[block_index].gap
    ELSE block_size * block_index + block_size
           + self.meta_data[block_index + 1].offset - self.meta_data[block_index].gap

\* the Range start..end
block_range(self, block_index) ==
    [start |-> block_start(self, block_index), end |-> block_end(self, block_index)]

\* the positions a Range iterates over (none when start >= end)
Positions(range) == range.start .. (range.end - 1)

\* Range::len()
RangeLen(range) == IF range.end > range.start THEN range.end - range.start ELSE 0

\* slicing main_table[range] panics unless start <= end <= main_table.len()
SliceOk(range) == 0 <= range.start /\ range.start <= range.end /\ range.end <= main_table_size

\* the unsigned subtraction in block_end does not go below zero
BlockEndOk(self, block_index) == block_end(self, block_index) >= 0

\* a reference into the table: a main-table cell or a backyard slot
MainRef(p) == [in |-> "main_table", at |-> p]
BackyardRef(key) == [in |-> "backyard", at |-> key]
Inserted(ref) == [tag |-> "Inserted", ref |-> ref]
Occupied(ref) == [tag |-> "Occupied", ref |-> ref]
NoReturn == [tag |-> "panic"]

\* the backyard with key mapped to value
BackyardPut(backyard, key, value) ==
    [k \in (DOMAIN backyard) \cup {key} |-> IF k = key THEN value ELSE backyard[k]]

\* the backyard without key
BackyardDel(backyard, key) ==
    [k \in (DOMAIN backyard) \ {key} |-> backyard[k]]

\* faulty variant of insert_into_backyard: an occupied entry is overwritten
insert_into_backyard_overwrites(self, key, value) ==
    [self |-> [self EXCEPT !.backyard = BackyardPut(@, key, value)],
     ret |-> IF key \in DOMAIN self.backyard THEN Occupied(BackyardRef(key))
             ELSE Inserted(BackyardRef(key))]

\* insert_into_backyard: [self, ret]
insert_into_backyard(self, key, value) ==
    IF key \in DOMAIN self.backyard
    THEN [self |-> self, ret |-> Occupied(BackyardRef(key))]
    ELSE [self |-> [self EXCEPT !.backyard = BackyardPut(@, key, value)],
          ret |-> Inserted(BackyardRef(key))]

\* faulty variant of LeftWalk: the walk goes on past a block with offset 0
LeftWalk_ignores_offset(self, sliding_block_index) ==
    LET walk[j \in Blocks] ==
            IF self.meta_data[j].gap = 0
            THEN IF j = 0 THEN -1 ELSE walk[j - 1]
            ELSE j
    IN walk[sliding_block_index]

\* the walk of slide_gap_from_left: the first block at or left of sliding_block_index
\* with a gap, or -1 where the code returns false
LeftWalk(self, sliding_block_index) ==
    LET walk[j \in Blocks] ==
            IF self.meta_data[j].gap = 0
            THEN IF (j = 0) \/ (self.meta_data[j].offset = 0) THEN -1 ELSE walk[j - 1]
            ELSE j
    IN walk[sliding_block_index]

\* empty_block_has_gap_one
empty_block_has_gap_one(self, sliding_block_index) ==
    (self.meta_data[sliding_block_index].gap = 1)
    /\ (block_start(self, sliding_block_index) = block_end(self, sliding_block_index))

\* faulty variant of LeftShiftStep: the block's last entry is not copied to its new start
LeftShiftStep_no_copy(self, sliding_block_index) ==
    IF self.meta_data[sliding_block_index].offset = 0
    THEN Panic(self)
    ELSE [self EXCEPT !.meta_data[sliding_block_index].offset = @ - 1]

\* one iteration of the shift loop of slide_gap_from_left
LeftShiftStep(self, sliding_block_index) ==
    LET start_sliding_block == block_start(self, sliding_block_index)
        end_sliding_block == block_end(self, sliding_block_index)
    IN IF (start_sliding_block - 1) \notin Cells \/ (end_sliding_block - 1) \notin Cells
          \/ self.meta_data[sliding_block_index].offset = 0
       THEN Panic(self)
       ELSE [self EXCEPT
               !.main_table[start_sliding_block - 1] = self.main_table[end_sliding_block - 1],
               !.meta_data[sliding_block_index].offset = @ - 1]

RECURSIVE LeftShift(_, _, _)
\* while sliding_block_index <= block_index { ... }
LeftShift(self, sliding_block_index, block_index) ==
    IF self.panic \/ sliding_block_index > block_index
    THEN self
    ELSE LeftShift(LeftShiftStep(self, sliding_block_index), sliding_block_index + 1, block_index)

\* slide_gap_from_left: [self, ok]
slide_gap_from_left(self, block_index) ==
    LET found == LeftWalk(self, block_index)
    IN IF found = -1 \/ empty_block_has_gap_one(self, found)
       THEN [self |-> self, ok |-> FALSE]
       ELSE LET released == [self EXCEPT !.meta_data[found].gap = @ - 1]
                shifted == LeftShift(released, found + 1, block_index)
            IN [self |-> IF shifted.panic THEN shifted
                         ELSE [shifted EXCEPT !.meta_data[block_index].gap = @ + 1],
                ok |-> TRUE]

\* the walk of slide_gap_from_right: the first block at or right of sliding_block_index
\* with a gap, or -1 where the code returns false
RightWalk(self, sliding_block_index) ==
    LET walk[j \in Blocks] ==
            IF self.meta_data[j].gap = 0
            THEN IF (j = number_of_blocks - 1) \/ (self.meta_data[j].offset = max_offset)
                 THEN -1 ELSE walk[j + 1]
            ELSE j
    IN walk[sliding_block_index]

\* faulty variant of RightFirstStep: the block's first entry is not copied to its new end
RightFirstStep_no_copy(self, sliding_block_index) ==
    [self EXCEPT !.meta_data[sliding_block_index].offset = @ + 1,
                 !.meta_data[sliding_block_index].gap = @ - 1]

\* the unrolled first step of slide_gap_from_right, on the block that gives the gap
RightFirstStep(self, sliding_block_index) ==
    LET start_sliding_block == block_start(self, sliding_block_index)
        end_sliding_block == block_end(self, sliding_block_index)
    IN IF start_sliding_block \notin Cells \/ end_sliding_block \notin Cells
       THEN Panic(self)
       ELSE [self EXCEPT
               !.main_table[end_sliding_block] = self.main_table[start_sliding_block],
               !.meta_data[sliding_block_index].offset = @ + 1,
               !.meta_data[sliding_block_index].gap = @ - 1]

\* faulty variant of RightShiftStep: the first entry is copied to end, not to end - 1
RightShiftStep_copies_to_end(self, sliding_block_index) ==
    LET start_sliding_block == block_start(self, sliding_block_index)
        end_sliding_block == block_end(self, sliding_block_index)
    IN IF start_sliding_block \notin Cells \/ end_sliding_block \notin Cells
       THEN Panic(self)
       ELSE [self EXCEPT
               !.main_table[end_sliding_block] = self.main_table[start_sliding_block],
               !.meta_data[sliding_block_index].offset = @ + 1]

\* one iteration of the shift loop of slide_gap_from_right
RightShiftStep(self, sliding_block_index) ==
    LET start_sliding_block == block_start(self, sliding_block_index)
        end_sliding_block == block_end(self, sliding_block_index)
    IN IF start_sliding_block \notin Cells \/ (end_sliding_block - 1) \notin Cells
       THEN Panic(self)
       ELSE [self EXCEPT
               !.main_table[end_sliding_block - 1] = self.main_table[start_sliding_block],
               !.meta_data[sliding_block_index].offset = @ + 1]

RECURSIVE RightShift(_, _, _)
\* while sliding_block_index > block_index { ... }
RightShift(self, sliding_block_index, block_index) ==
    IF self.panic \/ sliding_block_index <= block_index
    THEN self
    ELSE RightShift(RightShiftStep(self, sliding_block_index), sliding_block_index - 1, block_index)

\* slide_gap_from_right: [self, ok]
slide_gap_from_right(self, block_index) ==
    IF block_index = number_of_blocks - 1
    THEN [self |-> self, ok |-> FALSE]
    ELSE LET found == RightWalk(self, block_index + 1)
         IN IF found = -1
            THEN [self |-> self, ok |-> FALSE]
            ELSE IF self.meta_data[found].offset = max_offset
                    \/ empty_block_has_gap_one(self, found)
            THEN [self |-> self, ok |-> FALSE]
            ELSE LET shifted == RightShift(RightFirstStep(self, found), found - 1, block_index)
                 IN [self |-> IF shifted.panic THEN shifted
                              ELSE [shifted EXCEPT !.meta_data[block_index].gap = @ + 1],
                     ok |-> TRUE]

\* faulty variant of there_is_no_space: the right slide is tried before the left one
there_is_no_space_right_first(self, block_range_len, block_index) ==
    IF block_range_len >= max_slick_size
    THEN [self |-> self, no_space |-> TRUE, slid |-> "none"]
    ELSE IF self.meta_data[block_index].gap > 0
    THEN [self |-> self, no_space |-> FALSE, slid |-> "none"]
    ELSE LET right == slide_gap_from_right(self, block_index)
         IN IF right.ok
            THEN [self |-> right.self, no_space |-> FALSE, slid |-> "right"]
            ELSE LET left == slide_gap_from_left(right.self, block_index)
                 IN IF left.ok
                    THEN [self |-> left.self, no_space |-> FALSE, slid |-> "left"]
                    ELSE [self |-> left.self, no_space |-> TRUE, slid |-> "none"]

\* there_is_no_space: [self, no_space, slid], slid naming the slide that made room
there_is_no_space(self, block_range_len, block_index) ==
    IF block_range_len >= max_slick_size
    THEN [self |-> self, no_space |-> TRUE, slid |-> "none"]
    ELSE IF self.meta_data[block_index].gap > 0
    THEN [self |-> self, no_space |-> FALSE, slid |-> "none"]
    ELSE LET left == slide_gap_from_left(self, block_index)
         IN IF left.ok
            THEN [self |-> left.self, no_space |-> FALSE, slid |-> "left"]
            ELSE LET right == slide_gap_from_right(left.self, block_index)
                 IN IF right.ok
                    THEN [self |-> right.self, no_space |-> FALSE, slid |-> "right"]
                    ELSE [self |-> right.self, no_space |-> TRUE, slid |-> "none"]

\* the smallest threshold hash of the keys in the cells of range, max_threshold+1 if none
MinThresholdHash(self, range) ==
    LET hashes == { hash_threshold(self.main_table[p][1]) : p \in Positions(range) }
    IN IF hashes = {} THEN max_threshold + 1
       ELSE CHOOSE m \in hashes : \A h \in hashes : m <= h

\* faulty variant of BumpScanStep: a bumped entry is not counted out of the main table
BumpScanStep_keeps_count(self, block_index, j, t_prime) ==
    LET block_end_now == block_end(self, block_index)
        iter_key == self.main_table[j][1]
        iter_value == self.main_table[j][2]
    IN IF hash_threshold(iter_key) < t_prime
       THEN [self |-> [insert_into_backyard(self, iter_key, iter_value).self EXCEPT
                         !.main_table[j] = self.main_table[block_end_now - 1],
                         !.meta_data[block_index].gap = @ + 1],
             j |-> j]
       ELSE [self |-> self, j |-> j + 1]

\* faulty variant of BumpScanStep: a bumped entry is copied to the backyard and left in place
BumpScanStep_no_compaction(self, block_index, j, t_prime) ==
    IF hash_threshold(self.main_table[j][1]) < t_prime
    THEN [self |-> insert_into_backyard(self, self.main_table[j][1], self.main_table[j][2]).self,
          j |-> j + 1]
    ELSE [self |-> self, j |-> j + 1]

\* faulty variant of BumpScanStep: after a compaction the cursor goes back to the block's start
BumpScanStep_restarts(self, block_index, j, t_prime) ==
    LET block_end_now == block_end(self, block_index)
        iter_key == self.main_table[j][1]
        iter_value == self.main_table[j][2]
    IN IF hash_threshold(iter_key) < t_prime
       THEN IF self.no_elements_in_main_table = 0 \/ (block_end_now - 1) \notin Cells
            THEN [self |-> Panic(self), j |-> j]
            ELSE [self |-> [insert_into_backyard(self, iter_key, iter_value).self EXCEPT
                              !.no_elements_in_main_table = @ - 1,
                              !.main_table[j] = self.main_table[block_end_now - 1],
                              !.meta_data[block_index].gap = @ + 1],
                  j |-> block_start(self, block_index)]
       ELSE [self |-> self, j |-> j + 1]

\* one iteration of the bump scan at cursor j: [self, j]
BumpScanStep(self, block_index, j, t_prime) ==
    LET block_end_now == block_end(self, block_index)
        iter_key == self.main_table[j][1]
        iter_value == self.main_table[j][2]
    IN IF hash_threshold(iter_key) < t_prime
       THEN IF self.no_elements_in_main_table = 0 \/ (block_end_now - 1) \notin Cells
            THEN [self |-> Panic(self), j |-> j]
            ELSE [self |-> [insert_into_backyard(self, iter_key, iter_value).self EXCEPT
                              !.no_elements_in_main_table = @ - 1,
                              !.main_table[j] = self.main_table[block_end_now - 1],
                              !.meta_data[block_index].gap = @ + 1],
                  j |-> j]
       ELSE [self |-> self, j |-> j + 1]

RECURSIVE BumpScan(_, _, _, _)
\* while j < block_end { ... }, block_end recomputed after each compaction
BumpScan(self, block_index, j, t_prime) ==
    IF self.panic \/ ~(j < block_end(self, block_index))
    THEN self
    ELSE IF j \notin Cells
    THEN Panic(self)
    ELSE LET step == BumpScanStep(self, block_index, j, t_prime)
         IN BumpScan(step.self, block_index, step.j, t_prime)

\* faulty variant of TPrime: the incoming key's threshold hash is left out of the minimum
TPrime_without_incoming(self, range, key) ==
    LET min_threshold_hash == MinThresholdHash(self, range)
    IN IF ~SliceOk(range) \/ ~(min_threshold_hash < max_threshold + 1)
       THEN -1
       ELSE min_threshold_hash + 1

\* t_prime of the bump of block_index for the incoming key; -1 where the assert fails
TPrime(self, range, key) ==
    LET min_threshold_hash == MinThresholdHash(self, range)
    IN IF ~SliceOk(range) \/ ~(min_threshold_hash < max_threshold + 1)
       THEN -1
       ELSE Min2(hash_threshold(key), min_threshold_hash) + 1

\* the body of `if there_is_no_space { ... }` up to the scan: the table after the bump
Bump(self, block_index, block_start_then, range, key) ==
    LET t_prime == TPrime(self, range, key)
    IN IF t_prime = -1
       THEN Panic(self)
       ELSE BumpScan([self EXCEPT !.meta_data[block_index].threshold = t_prime],
                     block_index, block_start_then, t_prime)

\* faulty variant of WriteAtEnd: the gap is not reduced
WriteAtEnd_keeps_gap(self, block_index, key, value) ==
    LET current_block_end == block_end(self, block_index)
    IN IF current_block_end \notin Cells
       THEN [self |-> Panic(self), ret |-> NoReturn]
       ELSE [self |-> [self EXCEPT
                         !.main_table[current_block_end] = <<key, value>>,
                         !.no_elements_in_main_table = @ + 1],
             ret |-> Inserted(MainRef(current_block_end))]

\* faulty variant of WriteAtEnd: the counter is not raised
WriteAtEnd_no_count(self, block_index, key, value) ==
    LET current_block_end == block_end(self, block_index)
    IN IF current_block_end \notin Cells \/ self.meta_data[block_index].gap = 0
       THEN [self |-> Panic(self), ret |-> NoReturn]
       ELSE [self |-> [self EXCEPT
                         !.main_table[current_block_end] = <<key, value>>,
                         !.meta_data[block_index].gap = @ - 1],
             ret |-> Inserted(MainRef(current_block_end))]

\* the tail of try_insert: write the pair at the end of the block
WriteAtEnd(self, block_index, key, value) ==
    LET current_block_end == block_end(self, block_index)
    IN IF current_block_end \notin Cells \/ self.meta_data[block_index].gap = 0
       THEN [self |-> Panic(self), ret |-> NoReturn]
       ELSE [self |-> [self EXCEPT
                         !.main_table[current_block_end] = <<key, value>>,
                         !.no_elements_in_main_table = @ + 1,
                         !.meta_data[block_index].gap = @ - 1],
             ret |-> Inserted(MainRef(current_block_end))]

\* index within the block's slice of the first cell holding key, -1 if none
FoundIndex(self, block_start_then, range, key) ==
    LET hits == { p \in Positions(range) : self.main_table[p][1] = key }
    IN IF hits = {} THEN -1
       ELSE (CHOOSE p \in hits : \A q \in hits : p <= q) - block_start_then

\* the return of try_insert on a key found in its block
FoundReturn(some_found_index) == Inserted(MainRef(some_found_index))

\* try_insert(&mut self, (key, value)): [self, ret, path]
try_insert(self, key, value) ==
    LET block_index == hash_block_index(key)
    IN IF ~(block_index < number_of_blocks)
       THEN [self |-> Panic(self), ret |-> NoReturn, path |-> "panic"]
       ELSE
       LET block_start_then == block_start(self, block_index)
           range == block_range(self, block_index)
       IN IF ~BlockEndOk(self, block_index)
          THEN [self |-> Panic(self), ret |-> NoReturn, path |-> "panic"]
          ELSE IF hash_threshold(key) < self.meta_data[block_index].threshold
          THEN insert_into_backyard(self, key, value) @@ [path |-> "backyard"]
          ELSE IF RangeLen(range) > 0 /\ ~SliceOk(range)
          THEN [self |-> Panic(self), ret |-> NoReturn, path |-> "panic"]
          ELSE
          LET found_index == FoundIndex(self, block_start_then, range, key)
          IN IF found_index # -1
             THEN [self |-> self, ret |-> FoundReturn(found_index), path |-> "found"]
             ELSE
             LET space == there_is_no_space(self, RangeLen(range), block_index)
             IN IF ~space.no_space
                THEN WriteAtEnd(space.self, block_index, key, value)
                       @@ [path |-> IF space.slid = "none" THEN "gap" ELSE space.slid]
                ELSE
                LET bumped == Bump(space.self, block_index, block_start_then, range, key)
                    t_prime == bumped.meta_data[block_index].threshold
                IN IF bumped.panic
                   THEN [self |-> bumped, ret |-> NoReturn, path |-> "panic"]
                   ELSE IF hash_threshold(key) < t_prime
                   THEN insert_into_backyard(bumped, key, value) @@ [path |-> "bump_backyard"]
                   ELSE WriteAtEnd(bumped, block_index, key, value) @@ [path |-> "bump_main"]

None == [tag |-> "None"]
Some(x) == [tag |-> "Some", val |-> x]

\* get(&self, key): the Option it returns, or NoReturn on a panic
get(self, key) ==
    LET block_index == hash_block_index(key)
    IN IF ~(block_index < number_of_blocks)
       THEN NoReturn
       ELSE IF hash_threshold(key) < self.meta_data[block_index].threshold
       THEN IF key \in DOMAIN self.backyard THEN Some(self.backyard[key]) ELSE None
       ELSE IF ~SliceOk(block_range(self, block_index))
       THEN NoReturn
       ELSE LET hits == { p \in Positions(block_range(self, block_index)) :
                            self.main_table[p][1] = key }
            IN IF hits = {} THEN None
               ELSE Some(self.main_table[CHOOSE p \in hits : \A q \in hits : p <= q][2])

\* contains(&self, key)
contains(self, key) == get(self, key).tag = "Some"

\* faulty variant of RemoveFromBlock: the gap is not raised after the swap with the last entry
RemoveFromBlock_keeps_gap(self, block_index, key, remove_value) ==
    LET range == block_range(self, block_index)
        hits == { p \in Positions(range) \cap Cells : self.main_table[p][1] = key }
    IN IF hits = {}
       THEN [self |-> self, ret |-> remove_value]
       ELSE LET i == CHOOSE p \in hits : \A q \in hits : p <= q
                last == block_end(self, block_index) - 1
            IN [self |-> [self EXCEPT
                            !.main_table[i] = self.main_table[last],
                            !.no_elements_in_main_table = @ - 1],
                ret |-> Some(self.main_table[i])]

\* faulty variant of RemoveFromBlock: the entries after the removed one are shifted down
\* by one cell instead of the last entry being copied into the freed cell
RemoveFromBlock_shifts(self, block_index, key, remove_value) ==
    LET range == block_range(self, block_index)
        hits == { p \in Positions(range) \cap Cells : self.main_table[p][1] = key }
    IN IF hits = {}
       THEN [self |-> self, ret |-> remove_value]
       ELSE LET i == CHOOSE p \in hits : \A q \in hits : p <= q
                last == block_end(self, block_index) - 1
            IN [self |-> [self EXCEPT
                            !.main_table = [p \in Cells |->
                                              IF i <= p /\ p < last
                                              THEN self.main_table[p + 1]
                                              ELSE self.main_table[p]],
                            !.meta_data[block_index].gap = @ + 1,
                            !.no_elements_in_main_table = @ - 1],
                ret |-> Some(self.main_table[i])]

\* the main-table part of remove_entry: [self, ret]
RemoveFromBlock(self, block_index, key, remove_value) ==
    LET range == block_range(self, block_index)
        hits == { p \in Positions(range) \cap Cells : self.main_table[p][1] = key }
    IN IF hits = {}
       THEN IF Positions(range) \subseteq Cells
            THEN [self |-> self, ret |-> remove_value]
            ELSE [self |-> Panic(self), ret |-> NoReturn]
       ELSE LET i == CHOOSE p \in hits : \A q \in hits : p <= q
                last == block_end(self, block_index) - 1
            IN IF last \notin Cells \/ self.no_elements_in_main_table = 0
               THEN [self |-> Panic(self), ret |-> NoReturn]
               ELSE [self |-> [self EXCEPT
                                 !.main_table[i] = self.main_table[last],
                                 !.meta_data[block_index].gap = @ + 1,
                                 !.no_elements_in_main_table = @ - 1],
                     ret |-> Some(self.main_table[i])]

\* remove_entry(&mut self, key): [self, ret]
remove_entry(self, key) ==
    LET block_index == hash_block_index(key)
    IN IF ~(block_index < number_of_blocks)
       THEN [self |-> Panic(self), ret |-> NoReturn]
       ELSE IF hash_threshold(key) < self.meta_data[block_index].threshold
               /\ key \in DOMAIN self.backyard
       THEN RemoveFromBlock([self EXCEPT !.backyard = BackyardDel(@, key)],
                            block_index, key, Some(<<key, self.backyard[key]>>))
       ELSE RemoveFromBlock(self, block_index, key, None)

\* ------------------------------------------------------------- the loops
\* Each operator below runs one loop of the code as the code runs it and counts the
\* times its body is entered. A count stops at LoopFuel + 1: a loop that has not ended
\* by then is taken not to end.
LoopFuel == main_table_size + number_of_blocks + 2

RECURSIVE LeftWalkIterations(_, _, _)
\* while self.meta_data[sliding_block_index].gap == 0 { ... } of slide_gap_from_left
LeftWalkIterations(self, sliding_block_index, done) ==
    IF done > LoopFuel \/ self.meta_data[sliding_block_index].gap # 0
    THEN done
    ELSE IF (sliding_block_index = 0) \/ (self.meta_data[sliding_block_index].offset = 0)
    THEN done + 1
    ELSE LeftWalkIterations(self, sliding_block_index - 1, done + 1)

RECURSIVE LeftShiftIterations(_, _, _, _)
\* while sliding_block_index <= block_index { ... } of slide_gap_from_left
LeftShiftIterations(self, sliding_block_index, block_index, done) ==
    IF done > LoopFuel \/ self.panic \/ sliding_block_index > block_index
    THEN done
    ELSE LeftShiftIterations(LeftShiftStep(self, sliding_block_index),
                             sliding_block_index + 1, block_index, done + 1)

RECURSIVE RightWalkIterations(_, _, _)
\* while self.meta_data[sliding_block_index].gap == 0 { ... } of slide_gap_from_right
RightWalkIterations(self, sliding_block_index, done) ==
    IF done > LoopFuel \/ self.meta_data[sliding_block_index].gap # 0
    THEN done
    ELSE IF (sliding_block_index = number_of_blocks - 1)
            \/ (self.meta_data[sliding_block_index].offset = max_offset)
    THEN done + 1
    ELSE RightWalkIterations(self, sliding_block_index + 1, done + 1)

RECURSIVE RightShiftIterations(_, _, _, _)
\* while sliding_block_index > block_index { ... } of slide_gap_from_right
RightShiftIterations(self, sliding_block_index, block_index, done) ==
    IF done > LoopFuel \/ self.panic \/ sliding_block_index <= block_index
    THEN done
    ELSE RightShiftIterations(RightShiftStep(self, sliding_block_index),
                              sliding_block_index - 1, block_index, done + 1)

\* the loops of one slide_gap_from_left call: [walk, shift]
LeftSlideLoops(self, block_index) ==
    LET found == LeftWalk(self, block_index)
    IN [walk |-> LeftWalkIterations(self, block_index, 0),
        shift |-> IF found = -1 \/ empty_block_has_gap_one(self, found)
                  THEN 0
                  ELSE LeftShiftIterations([self EXCEPT !.meta_data[found].gap = @ - 1],
                                           found + 1, block_index, 0)]

\* the loops of one slide_gap_from_right call: [walk, shift]
RightSlideLoops(self, block_index) ==
    IF block_index = number_of_blocks - 1
    THEN [walk |-> 0, shift |-> 0]
    ELSE LET found == RightWalk(self, block_index + 1)
         IN [walk |-> RightWalkIterations(self, block_index + 1, 0),
             shift |-> IF found = -1
                       THEN 0
                       ELSE IF self.meta_data[found].offset = max_offset
                               \/ empty_block_has_gap_one(self, found)
                       THEN 0
                       ELSE RightShiftIterations(RightFirstStep(self, found),
                                                 found - 1, block_index, 0)]

RECURSIVE BumpScanIterations(_, _, _, _, _)
\* while j < block_end { ... } of try_insert
BumpScanIterations(self, block_index, j, t_prime, done) ==
    IF done > LoopFuel \/ self.panic \/ ~(j < block_end(self, block_index)) \/ j \notin Cells
    THEN done
    ELSE LET step == BumpScanStep(self, block_index, j, t_prime)
         IN BumpScanIterations(step.self, block_index, step.j, t_prime, done + 1)

\* the cells a search of range for key visits: it stops at the first cell holding key
SearchIterations(self, range, key) ==
    LET hits == { p \in Positions(range) \cap Cells : self.main_table[p][1] = key }
    IN IF hits = {} THEN RangeLen(range)
       ELSE (CHOOSE p \in hits : \A q \in hits : p <= q) - range.start + 1

NoLoops == [search |-> 0, minimum |-> 0, left |-> [walk |-> 0, shift |-> 0],
            right |-> [walk |-> 0, shift |-> 0], scan |-> 0, scanned |-> 0]

\* the loops of one try_insert call, along the path the call takes: the search of the
\* block, the walks and shifts of the slides it calls, the minimum over the block, and
\* the bump scan with the length (scanned) of the block it starts on
TryInsertLoops(self, key) ==
    LET block_index == hash_block_index(key)
    IN IF ~(block_index < number_of_blocks)
       THEN NoLoops
       ELSE
       LET block_start_then == block_start(self, block_index)
           range == block_range(self, block_index)
       IN IF ~BlockEndOk(self, block_index)
             \/ hash_threshold(key) < self.meta_data[block_index].threshold
             \/ (RangeLen(range) > 0 /\ ~SliceOk(range))
          THEN NoLoops
          ELSE IF FoundIndex(self, block_start_then, range, key) # -1
          THEN [NoLoops EXCEPT !.search = SearchIterations(self, range, key)]
          ELSE
          LET searched == [NoLoops EXCEPT !.search = SearchIterations(self, range, key)]
              slides == RangeLen(range) < max_slick_size
                        /\ self.meta_data[block_index].gap = 0
              left == slide_gap_from_left(self, block_index)
              slid == IF ~slides THEN searched
                      ELSE IF left.ok
                      THEN [searched EXCEPT !.left = LeftSlideLoops(self, block_index)]
                      ELSE [searched EXCEPT
                              !.left = LeftSlideLoops(self, block_index),
                              !.right = RightSlideLoops(left.self, block_index)]
              space == there_is_no_space(self, RangeLen(range), block_index)
              t_prime == TPrime(space.self, range, key)
          IN IF ~space.no_space
             THEN slid
             ELSE IF t_prime = -1
             THEN [slid EXCEPT !.minimum = RangeLen(range)]
             ELSE [slid EXCEPT
                     !.minimum = RangeLen(range),
                     !.scanned = block_end(space.self, block_index) - block_start_then,
                     !.scan = BumpScanIterations(
                                [space.self EXCEPT !.meta_data[block_index].threshold = t_prime],
                                block_index, block_start_then, t_prime, 0)]

\* the cells the search of get visits
GetLoops(self, key) ==
    LET block_index == hash_block_index(key)
    IN IF ~(block_index < number_of_blocks)
       THEN 0
       ELSE IF hash_threshold(key) < self.meta_data[block_index].threshold
               \/ ~SliceOk(block_range(self, block_index))
       THEN 0
       ELSE SearchIterations(self, block_range(self, block_index), key)

\* the cells the for loop of remove_entry visits
RemoveEntryLoops(self, key) ==
    LET block_index == hash_block_index(key)
    IN IF ~(block_index < number_of_blocks)
       THEN 0
       ELSE SearchIterations(self, block_range(self, block_index), key)

\* ------------------------------------------------------------- the machine
VARIABLES
    main_table,                 \* Vec<(Key, Value)>
    meta_data,                  \* Vec<SlickHashMetaData>
    backyard,                   \* HashMap<Key, Value>
    no_elements_in_main_table,  \* usize
    panicked,                   \* a call has panicked: the table is gone
    last_change,                \* how the last call that changed the table did it: by
                                \* a slide ("left", "right"), by a bump ("bump_main",
                                \* "bump_backyard"), or without either ("plain")
    net_inserted,               \* try_insert calls on absent keys minus remove_entry
                                \* calls that returned Some
    live,                       \* the keys handed to a try_insert that returned and not
                                \* since handed to a remove_entry that returned Some
    bumps,                      \* per block, the try_insert calls that bumped it
    construction                \* the Capacity handed to with_capacity, and whether the
                                \* call has been made

vars == << main_table, meta_data, backyard, no_elements_in_main_table, panicked,
           last_change, net_inserted, live, bumps, construction >>

\* the table the variables hold
Self == [ meta_data |-> meta_data, main_table |-> main_table, backyard |-> backyard,
          no_elements_in_main_table |-> no_elements_in_main_table, panic |-> FALSE ]

\* The variables take the table value next.  A panic unwinds and drops the table:
\* nothing of it can be observed afterwards, the variables go back to the
\* constructed value and no further call is made.
Becomes(next, path) ==
    /\ panicked' = next.panic
    /\ main_table' = IF next.panic THEN new.main_table ELSE next.main_table
    /\ meta_data' = IF next.panic THEN new.meta_data ELSE next.meta_data
    /\ backyard' = IF next.panic THEN new.backyard ELSE next.backyard
    /\ no_elements_in_main_table' =
          IF next.panic THEN 0 ELSE next.no_elements_in_main_table
    /\ last_change' = IF next.panic THEN "panic"
                      ELSE IF next = Self THEN last_change
                      ELSE IF path \in {"left", "right", "bump_main", "bump_backyard"}
                           THEN path
                      ELSE "plain"
    /\ construction' = construction

Init ==
    /\ main_table = new.main_table
    /\ meta_data = new.meta_data
    /\ backyard = new.backyard
    /\ no_elements_in_main_table = new.no_elements_in_main_table
    /\ panicked = new.panic
    /\ last_change = "plain"
    /\ net_inserted = 0
    /\ live = {}
    /\ bumps = [i \in Blocks |-> 0]
    /\ construction = [request |-> Usize(capacity), built |-> TRUE]

TryInsert(key, value) ==
    /\ ~panicked
    /\ LET was == get(Self, key)
           done == try_insert(Self, key, value)
       IN /\ Becomes(done.self, done.path)
          /\ net_inserted' = IF done.self.panic THEN 0
                             ELSE IF was = None THEN net_inserted + 1 ELSE net_inserted
          /\ live' = IF done.self.panic THEN {} ELSE live \cup {key}
          /\ bumps' = IF done.self.panic THEN [i \in Blocks |-> 0]
                      ELSE IF done.path \in {"bump_main", "bump_backyard"}
                      THEN [bumps EXCEPT ![hash_block_index(key)] = @ + 1]
                      ELSE bumps

Get(key) ==
    /\ ~panicked
    /\ LET got == get(Self, key)
       IN /\ Becomes(IF got = NoReturn THEN Panic(Self) ELSE Self, "get")
          /\ net_inserted' = IF got = NoReturn THEN 0 ELSE net_inserted
          /\ live' = IF got = NoReturn THEN {} ELSE live
          /\ bumps' = IF got = NoReturn THEN [i \in Blocks |-> 0] ELSE bumps

Contains(key) ==
    /\ ~panicked
    /\ LET got == get(Self, key)
       IN /\ Becomes(IF got = NoReturn THEN Panic(Self) ELSE Self, "contains")
          /\ net_inserted' = IF got = NoReturn THEN 0 ELSE net_inserted
          /\ live' = IF got = NoReturn THEN {} ELSE live
          /\ bumps' = IF got = NoReturn THEN [i \in Blocks |-> 0] ELSE bumps

RemoveEntry(key) ==
    /\ ~panicked
    /\ LET done == remove_entry(Self, key)
       IN /\ Becomes(done.self, "remove_entry")
          /\ net_inserted' = IF done.self.panic THEN 0
                             ELSE IF done.ret.tag = "Some" THEN net_inserted - 1
                             ELSE net_inserted
          /\ live' = IF done.self.panic THEN {}
                     ELSE IF done.ret.tag = "Some" THEN live \ {key} ELSE live
          /\ bumps' = IF done.self.panic THEN [i \in Blocks |-> 0] ELSE bumps

Next ==
    \/ \E input \in Inputs : TryInsert(input[1], input[2])
    \/ \E key \in Keys : Get(key)
    \/ \E key \in Keys : Contains(key)
    \/ \E key \in Keys : RemoveEntry(key)

Spec == Init /\ [][Next]_vars

\* A second population of keys, crowding two blocks: keys 11..15 hash to block 0 with
\* threshold hashes 0, 1, 1, 2, 2 and keys 16..19 to block 1 with threshold hashes
\* 2, 0, 1, 2.  Block 0 can reach max_slick_size and both blocks can be bumped
\* repeatedly.  Every key is inserted; keys 11 and 16 are also removed.
CrowdKeys == 11 .. 19
CrowdInputs == { input \in CrowdKeys \X Values : input[2] = (input[1] % MaxVal) + 1 }
CrowdRemoved == {11, 16}

CrowdNext ==
    \/ \E input \in CrowdInputs : TryInsert(input[1], input[2])
    \/ \E key \in CrowdKeys : Get(key)
    \/ \E key \in CrowdKeys : Contains(key)
    \/ \E key \in CrowdRemoved : RemoveEntry(key)

CrowdSpec == Init /\ [][CrowdNext]_vars

\* Construction on its own: with_capacity is handed any Capacity up to MaxCapacity,
\* with no margin or a margin of 0, 1/2 or 1, and is called once.
Requests == { Usize(n) : n \in 0 .. MaxCapacity }
              \cup { WithMargin(n, halves) : n \in 0 .. MaxCapacity, halves \in 0 .. 2 }

NewInit ==
    /\ construction \in { [request |-> request, built |-> FALSE] : request \in Requests }
    /\ main_table = [p \in {} |-> <<0, 0>>]
    /\ meta_data = [i \in {} |-> SlickHashMetaData(0, block_size, 0)]
    /\ backyard = [k \in {} |-> 0]
    /\ no_elements_in_main_table = 0
    /\ panicked = FALSE
    /\ last_change = "plain"
    /\ net_inserted = 0
    /\ live = {}
    /\ bumps = [i \in {} |-> 0]

\* the call of with_capacity; after a failed assert_eq! there is no table
WithCapacity ==
    /\ ~construction.built
    /\ construction' = [construction EXCEPT !.built = TRUE]
    /\ LET made == with_capacity(construction.request)
       IN /\ panicked' = made.panic
          /\ main_table' = IF made.panic THEN main_table ELSE made.main_table
          /\ meta_data' = IF made.panic THEN meta_data ELSE made.meta_data
          /\ bumps' = IF made.panic THEN bumps ELSE [i \in DOMAIN made.meta_data |-> 0]
          /\ backyard' = made.backyard
          /\ no_elements_in_main_table' = made.no_elements_in_main_table
    /\ UNCHANGED << last_change, net_inserted, live >>

NewNext == WithCapacity

NewSpec == NewInit /\ [][NewNext]_vars

\* ---------------------------------------------------------------- claims
\* The claims speak of a call made in a reachable state: each is stated for every
\* key and value at every reachable state, comparing the table before the call
\* (Self) with the table the call leaves.

\* the positions of all block ranges
RangePositions(self) == UNION { Positions(block_range(self, i)) : i \in Blocks }

\* the positions inside block ranges whose cell holds key
CellsOf(self, key) == { p \in RangePositions(self) : self.main_table[p][1] = key }

\* key is stored: in a cell of a block range or in the backyard
Stored(self, key) == CellsOf(self, key) # {} \/ key \in DOMAIN self.backyard

\* the cells inside block ranges, as a function of their positions
RangeCells(self) == [p \in RangePositions(self) |-> self.main_table[p]]

\* C1 Lookup-after-insert: right after try_insert((k,v)) returns, get(&k) is Some(v)
\* if k was absent before the call and Some(w) if k was present with value w.
C1_LookupAfterInsert ==
    ~panicked =>
      \A key \in Keys, value \in Values :
        LET was == get(Self, key)
            done == try_insert(Self, key, value)
        IN ~done.self.panic =>
             get(done.self, key) = IF was = None THEN Some(value) ELSE was

\* a table reached by a left slide in which a new key is about to be placed by a bump
\* and an already present key is about to be tried with another value
C1_Witness ==
    /\ last_change = "left"
    /\ \E key \in Keys, value \in Values :
         /\ get(Self, key) = None
         /\ try_insert(Self, key, value).path \in {"bump_main", "bump_backyard"}
         /\ get(try_insert(Self, key, value).self, key) = Some(value)
    /\ \E key \in Keys, value \in Values :
         /\ get(Self, key) \notin {None, Some(value), NoReturn}
         /\ get(try_insert(Self, key, value).self, key) = get(Self, key)

\* C2 try_insert returns Occupied whenever the key is already present and Inserted
\* only when it was absent.
C2_OccupiedIffPresent ==
    ~panicked =>
      \A key \in Keys, value \in Values :
        LET done == try_insert(Self, key, value)
        IN ~done.self.panic =>
             (done.ret.tag = "Occupied" <=> Stored(Self, key))

\* C3 the reference try_insert returns denotes the cell that stores the key's value:
\* a cell of the key's home block range holding the key, or the key's backyard slot.
C3_ReferenceDenotesStoredCell ==
    ~panicked =>
      \A key \in Keys, value \in Values :
        LET done == try_insert(Self, key, value)
            ref == done.ret.ref
        IN ~done.self.panic =>
             IF ref.in = "main_table"
             THEN /\ ref.at \in Positions(block_range(done.self, hash_block_index(key)))
                  /\ done.self.main_table[ref.at][1] = key
             ELSE ref.at = key /\ key \in DOMAIN done.self.backyard

\* C4 try_insert on a key that is already present changes nothing: the key's stored
\* value, all metadata, the cells inside block ranges, the backyard and the counter.
C4_InsertPresentChangesNothing ==
    ~panicked =>
      \A key \in Keys, value \in Values :
        LET done == try_insert(Self, key, value)
        IN (Stored(Self, key) /\ ~done.self.panic) =>
             /\ get(done.self, key) = get(Self, key)
             /\ done.self.meta_data = meta_data
             /\ RangeCells(done.self) = RangeCells(Self)
             /\ done.self.backyard = backyard
             /\ done.self.no_elements_in_main_table = no_elements_in_main_table

\* a bumped table where a key of the backyard and a key of a block that a slide has
\* moved are both about to be tried again with a value they do not hold
C4_Witness ==
    /\ last_change \in {"bump_main", "bump_backyard"}
    /\ \E key \in DOMAIN backyard, value \in Values : backyard[key] # value
    /\ \E key \in Keys, value \in Values :
         /\ CellsOf(Self, key) # {}
         /\ meta_data[hash_block_index(key)].offset > 0
         /\ get(Self, key) # Some(value)
         /\ try_insert(Self, key, value).path = "found"

\* C5 Remove-then-get: if remove_entry(&k) returns Some((k,v)) then v is what get(&k)
\* returned just before and get(&k) is None right after; if k is absent it returns
\* None and changes nothing.
C5_RemoveThenGet ==
    ~panicked =>
      \A key \in Keys :
        LET was == get(Self, key)
            done == remove_entry(Self, key)
        IN ~done.self.panic =>
             /\ done.ret.tag = "Some" =>
                  /\ was = Some(done.ret.val[2])
                  /\ done.ret.val[1] = key
                  /\ get(done.self, key) = None
             /\ was = None => (done.ret = None /\ done.self = Self)

\* a table from which the entries a bump sent to the backyard have been removed again
\* (a raised threshold, and no backyard entry of that block), and from which a key in
\* the middle of a block (not its last cell) can be removed
C5_Witness ==
    /\ \E block_index \in Blocks :
         /\ meta_data[block_index].threshold > 0
         /\ \A key \in DOMAIN backyard : hash_block_index(key) # block_index
    /\ \E key \in Keys :
         /\ remove_entry(Self, key).ret.tag = "Some"
         /\ \E p \in CellsOf(Self, key) :
              p + 1 \in Positions(block_range(Self, hash_block_index(key)))

\* C6 Population conservation: no_elements_in_main_table + |backyard| equals the
\* number of try_insert calls on absent keys minus the number of remove_entry calls
\* that returned Some.
C6_PopulationConservation ==
    ~panicked =>
      no_elements_in_main_table + Cardinality(DOMAIN backyard) = net_inserted

\* a bump has just moved entries to the backyard while both regions are populated
C6_Witness ==
    /\ last_change = "bump_main"
    /\ Cardinality(DOMAIN backyard) >= 1
    /\ no_elements_in_main_table >= 4
    /\ \E i \in Blocks : meta_data[i].offset > 0

\* C7 Exclusive ownership: every live key is stored exactly once, in one cell of its
\* home block's range or in the backyard, no other key is stored, and every backyard
\* key is below the current threshold of its home block.
C7_ExclusiveOwnership ==
    ~panicked =>
      \A key \in Keys :
        /\ Cardinality(CellsOf(Self, key)) + (IF key \in DOMAIN backyard THEN 1 ELSE 0)
             = (IF key \in live THEN 1 ELSE 0)
        /\ Stored(Self, key) => hash_block_index(key) \in Blocks
        /\ CellsOf(Self, key) # {} =>
             CellsOf(Self, key) \subseteq Positions(block_range(Self, hash_block_index(key)))
        /\ key \in DOMAIN backyard =>
             hash_threshold(key) < meta_data[hash_block_index(key)].threshold

\* after a slide: a cell that the slide moved an entry out of, now outside every
\* block range, still holds the pair of a live key
C7_Witness ==
    /\ last_change \in {"left", "right"}
    /\ \E key \in live : \E p \in Cells \ RangePositions(Self) :
         main_table[p][1] = key /\ main_table[p][2] > 0
    /\ no_elements_in_main_table >= 3

\* C8 Placement: every entry in a cell of block i's range has block hash i and a
\* threshold hash that is at least threshold[i].
C8_Placement ==
    ~panicked =>
      \A i \in Blocks : \A p \in Positions(block_range(Self, i)) :
        /\ hash_block_index(main_table[p][1]) = i
        /\ hash_threshold(main_table[p][1]) >= meta_data[i].threshold

\* a bump has just left entries in a block that slides had moved off its anchor
C8_Witness ==
    /\ last_change = "bump_main"
    /\ \E i \in Blocks :
         /\ meta_data[i].threshold > 0
         /\ meta_data[i].offset > 0
         /\ Positions(block_range(Self, i)) # {}

\* C9 Geometry: for every block start <= end <= start of the next block (the table
\* size for the last), length <= max_slick_size, offset <= max_offset and
\* threshold <= max_threshold.
C9_Geometry ==
    ~panicked =>
      \A i \in Blocks :
        /\ block_start(Self, i) <= block_end(Self, i)
        /\ block_end(Self, i) <=
             (IF i = number_of_blocks - 1 THEN main_table_size ELSE block_start(Self, i + 1))
        /\ block_end(Self, i) - block_start(Self, i) <= max_slick_size
        /\ meta_data[i].offset <= max_offset
        /\ meta_data[i].threshold <= max_threshold

RECURSIVE SumOfLengths(_, _)
\* the sum of end(b) - start(b) over the blocks b >= i
SumOfLengths(self, i) ==
    IF i = number_of_blocks THEN 0
    ELSE (block_end(self, i) - block_start(self, i)) + SumOfLengths(self, i + 1)

\* the start/end/length/offset part of the geometry, without the threshold bound
GeometryOfExtents ==
    ~panicked =>
      \A i \in Blocks :
        /\ block_start(Self, i) <= block_end(Self, i)
        /\ block_end(Self, i) <=
             (IF i = number_of_blocks - 1 THEN main_table_size ELSE block_start(Self, i + 1))
        /\ block_end(Self, i) - block_start(Self, i) <= max_slick_size
        /\ meta_data[i].offset <= max_offset

\* C10 Counter: no_elements_in_main_table is the sum of the block lengths.
C10_Counter ==
    ~panicked => no_elements_in_main_table = SumOfLengths(Self, 0)

\* a bump has just taken entries out of a block while other blocks hold entries
C10_Witness ==
    /\ last_change = "bump_backyard"
    /\ no_elements_in_main_table >= 3
    /\ Cardinality(DOMAIN backyard) >= 2

\* C12 Infallibility: on a table constructed with a capacity that is a positive
\* multiple of block_size no sequence of try_insert, get, contains and remove_entry
\* calls aborts.
C12_Infallibility == ~panicked

\* every abort is the block_index < number_of_blocks assertion, failing for a key whose
\* block hash scales to number_of_blocks itself; the other assertions, indices and
\* unsigned decrements stay valid
AbortsOnlyOnTopHash ==
    ~panicked =>
      \A key \in Keys :
        (\/ get(Self, key) = NoReturn
         \/ remove_entry(Self, key).self.panic
         \/ \E value \in Values : try_insert(Self, key, value).self.panic)
          => hash_block_index(key) = number_of_blocks

\* C14 Non-interference between keys: for two distinct keys k and k', try_insert((k,v))
\* and remove_entry(&k) leave the result of get(&k') unchanged.
C14_NonInterference ==
    ~panicked =>
      \A key \in Keys :
        /\ \A value \in Values :
             LET done == try_insert(Self, key, value)
             IN ~done.self.panic =>
                  \A other \in Keys \ {key} : get(done.self, other) = get(Self, other)
        /\ LET done == remove_entry(Self, key)
           IN ~done.self.panic =>
                \A other \in Keys \ {key} : get(done.self, other) = get(Self, other)

\* the call moves the entry of other to another cell of the main table
MovesEntry(before, after, other) ==
    /\ CellsOf(before, other) # {}
    /\ CellsOf(after, other) # {}
    /\ CellsOf(after, other) # CellsOf(before, other)

\* a table that a left slide has just moved entries in, in which one insert is about
\* to bump another key into the backyard and one removal is about to fill its cell
\* with the block's last entry, the entry of another key
C14_Witness ==
    /\ last_change = "left"
    /\ \E key \in Keys, value \in Values, other \in Keys :
         /\ other # key
         /\ try_insert(Self, key, value).path \in {"bump_main", "bump_backyard"}
         /\ CellsOf(Self, other) # {}
         /\ other \in DOMAIN try_insert(Self, key, value).self.backyard
    /\ \E key \in Keys, other \in Keys :
         /\ other # key
         /\ remove_entry(Self, key).ret.tag = "Some"
         /\ MovesEntry(Self, remove_entry(Self, key).self, other)

\* the pairs in the cells of block i's range
BlockEntries(self, i) == { self.main_table[p] : p \in Positions(block_range(self, i)) }

\* the least element of a non-empty set of numbers
Least(numbers) == CHOOSE m \in numbers : \A n \in numbers : m <= n

\* C15 Bumper effect: when try_insert((k,v)) finds no space in block i it sets
\* threshold[i] to t' = 1 + min(H_t(k), min of H_t over the entries of block i); exactly
\* the entries of block i with H_t < t' move to the backyard with their values, gap[i]
\* and the counter changing by one per moved entry; the other entries stay in block i;
\* the incoming pair goes to the backyard iff H_t(k) < t' and is otherwise written into
\* block i, which then has a free cell.
C15_BumperEffect ==
    ~panicked =>
      \A key \in CrowdKeys, value \in Values :
        LET done == try_insert(Self, key, value)
            i == hash_block_index(key)
            t_prime == 1 + Least({hash_threshold(key)} \cup
                                   { hash_threshold(entry[1]) : entry \in BlockEntries(Self, i) })
            moved == { entry \in BlockEntries(Self, i) : hash_threshold(entry[1]) < t_prime }
            to_backyard == hash_threshold(key) < t_prime
            written == IF to_backyard THEN 0 ELSE 1
        IN done.path \in {"bump_main", "bump_backyard"} =>
             /\ done.self.meta_data[i].threshold = t_prime
             /\ DOMAIN done.self.backyard =
                  DOMAIN backyard \cup { entry[1] : entry \in moved }
                                 \cup (IF to_backyard THEN {key} ELSE {})
             /\ \A entry \in moved : done.self.backyard[entry[1]] = entry[2]
             /\ \A old \in DOMAIN backyard : done.self.backyard[old] = backyard[old]
             /\ done.self.meta_data[i].gap =
                  meta_data[i].gap + Cardinality(moved) - written
             /\ done.self.no_elements_in_main_table =
                  no_elements_in_main_table - Cardinality(moved) + written
             /\ BlockEntries(done.self, i) =
                  (BlockEntries(Self, i) \ moved)
                    \cup (IF to_backyard THEN {} ELSE {<<key, value>>})
             /\ to_backyard <=> done.path = "bump_backyard"
             /\ to_backyard => done.self.backyard[key] = value
             /\ ~to_backyard => moved # {}

\* a bump has just sent entries to the backyard and written its incoming pair into the
\* block, and another insert is about to bump entries of a block and go to the
\* backyard itself
C15_Witness ==
    /\ last_change = "bump_main"
    /\ DOMAIN backyard # {}
    /\ \E key \in CrowdKeys, value \in Values :
         /\ try_insert(Self, key, value).path = "bump_backyard"
         /\ Cardinality(DOMAIN try_insert(Self, key, value).self.backyard)
              >= Cardinality(DOMAIN backyard) + 2

\* no call lowers a threshold, and a call that bumps block i raises threshold[i]
ThresholdNeverDecreases ==
    [][ ~panicked' =>
          \A i \in Blocks :
            /\ meta_data'[i].threshold >= meta_data[i].threshold
            /\ bumps'[i] > bumps[i] => meta_data'[i].threshold > meta_data[i].threshold
      ]_vars

\* C11 Threshold monotonicity: threshold[i] never decreases across any operation, every
\* bump of block i sets threshold[i] strictly greater than before, and a block is
\* bumped at most max_threshold times over the table's lifetime.
C11_ThresholdMonotonicity ==
    /\ ThresholdNeverDecreases
    /\ [](\A i \in Blocks : bumps[i] <= max_threshold)

\* C13 Construction aborts for every capacity that is not a positive multiple of
\* block_size (capacity 0 included); for a positive multiple it yields
\* capacity/block_size blocks, each with offset 0, gap block_size and threshold 0, an
\* empty backyard and no_elements_in_main_table = 0.
C13_Construction ==
    construction.built =>
      LET capacity_given == CapacityOf(construction.request)
          positive_multiple == capacity_given > 0 /\ capacity_given % block_size = 0
      IN /\ panicked <=> ~positive_multiple
         /\ ~panicked =>
              /\ DOMAIN meta_data = 0 .. ((capacity_given \div block_size) - 1)
              /\ \A i \in DOMAIN meta_data :
                   meta_data[i] = SlickHashMetaData(0, block_size, 0)
              /\ DOMAIN main_table = 0 .. (capacity_given - 1)
              /\ DOMAIN backyard = {}
              /\ no_elements_in_main_table = 0

\* the same with capacity 0 left out: construction aborts for every capacity that is not
\* a multiple of block_size and yields the described table for every positive multiple
ConstructionOfNonZero ==
    (construction.built /\ CapacityOf(construction.request) # 0) => C13_Construction

\* end(b) - start(b)
BlockLength(self, b) == block_end(self, b) - block_start(self, b)

\* how many cells of block b's range hold pair
EntryCount(self, b, pair) ==
    Cardinality({ p \in Positions(block_range(self, b)) : self.main_table[p] = pair })

\* the effect of a slide toward block i that took its cell from the donor block j
SlideEffect(before, after, i, j, direction) ==
    \A b \in Blocks :
      /\ after.meta_data[b].gap =
           before.meta_data[b].gap + (IF b = i THEN 1 ELSE 0) - (IF b = j THEN 1 ELSE 0)
      /\ after.meta_data[b].offset =
           before.meta_data[b].offset
             + (IF direction = "right" /\ i + 1 <= b /\ b <= j THEN 1 ELSE 0)
             - (IF direction = "left" /\ j + 1 <= b /\ b <= i THEN 1 ELSE 0)
      /\ after.meta_data[b].threshold = before.meta_data[b].threshold
      /\ BlockLength(after, b) = BlockLength(before, b)
      /\ \A pair \in BlockEntries(before, b) \cup BlockEntries(after, b) :
           EntryCount(after, b, pair) = EntryCount(before, b, pair)

\* try_insert calls the slides toward block i when gap[i] = 0 and the block is shorter
\* than max_slick_size
SlidesCalled(self, i) ==
    self.meta_data[i].gap = 0 /\ BlockLength(self, i) < max_slick_size

\* C16 Slide effect and frame: a slide toward block i that returns true raises gap[i]
\* by 1, lowers the gap of exactly one donor block j by 1, changes by 1 the offset of
\* exactly the blocks j+1..i (left slide, decremented) or i+1..j (right slide,
\* incremented), leaves every threshold and every other offset and gap unchanged, and
\* leaves the length and the multiset of entries of every block unchanged.
C16_SlideEffect ==
    ~panicked =>
      \A i \in Blocks :
        SlidesCalled(Self, i) =>
          LET left == slide_gap_from_left(Self, i)
              right == slide_gap_from_right(Self, i)
          IN /\ left.ok =>
                  \E j \in Blocks : j < i /\ SlideEffect(Self, left.self, i, j, "left")
             /\ (~left.ok /\ right.ok) =>
                  \E j \in Blocks : j > i /\ SlideEffect(Self, right.self, i, j, "right")

\* a table that a left slide has just changed, in which a block whose left slide fails
\* is about to take a cell from the right through a block in between
C16_Witness ==
    /\ last_change = "left"
    /\ \E i \in Blocks :
         /\ SlidesCalled(Self, i)
         /\ ~slide_gap_from_left(Self, i).ok
         /\ slide_gap_from_right(Self, i).ok
         /\ slide_gap_from_right(Self, i).self.meta_data[i + 2].offset
              # meta_data[i + 2].offset

\* the offsets of all blocks
Offsets(self) == [b \in Blocks |-> self.meta_data[b].offset]

\* the metadata of the blocks other than i
OtherBlocks(self, i) == [b \in Blocks \ {i} |-> self.meta_data[b]]

\* try_insert((key, value)) looks for space: the key is routed to the main table and is
\* not in its block
LooksForSpace(self, key, value) ==
    try_insert(self, key, value).path \in {"gap", "left", "right", "bump_main", "bump_backyard"}

\* C17 Slide ordering in try_insert: no slide is made when the home block's length is
\* >= max_slick_size or gap[i] > 0; otherwise the left slide comes first and the right
\* slide only if the left one returned false; a slide that returns false has changed
\* nothing; so a try_insert makes at most one slide that changes the table and a bump
\* follows only slides that changed nothing.
C17_SlideOrdering ==
    ~panicked =>
      \A key \in CrowdKeys, value \in Values :
        LET i == hash_block_index(key)
            done == try_insert(Self, key, value)
            left == slide_gap_from_left(Self, i)
            right == slide_gap_from_right(Self, i)
            bumps_block == done.path \in {"bump_main", "bump_backyard"}
        IN LooksForSpace(Self, key, value) =>
             IF ~SlidesCalled(Self, i)
             THEN /\ Offsets(done.self) = Offsets(Self)
                  /\ OtherBlocks(done.self, i) = OtherBlocks(Self, i)
                  /\ bumps_block <=> BlockLength(Self, i) >= max_slick_size
             ELSE /\ ~left.ok => left.self = Self
                  /\ ~right.ok => right.self = Self
                  /\ left.ok =>
                       /\ ~bumps_block
                       /\ Offsets(done.self) = Offsets(left.self)
                       /\ OtherBlocks(done.self, i) = OtherBlocks(left.self, i)
                  /\ (~left.ok /\ right.ok) =>
                       /\ ~bumps_block
                       /\ Offsets(done.self) = Offsets(right.self)
                       /\ OtherBlocks(done.self, i) = OtherBlocks(right.self, i)
                  /\ (~left.ok /\ ~right.ok) =>
                       /\ bumps_block
                       /\ Offsets(done.self) = Offsets(Self)
                       /\ OtherBlocks(done.self, i) = OtherBlocks(Self, i)

\* a table in which slides have moved a block off its anchor, where one insert is about
\* to slide from the left although the right slide would succeed too, and another
\* insert is about to use its block's own gap
C17_Witness ==
    /\ \E key \in CrowdKeys, value \in Values :
         /\ try_insert(Self, key, value).path = "left"
         /\ meta_data[hash_block_index(key)].offset > 0
         /\ slide_gap_from_right(Self, hash_block_index(key)).ok
    /\ \E key \in CrowdKeys, value \in Values :
         try_insert(Self, key, value).path = "gap"

\* a right slide has just brought a block to max_slick_size, and an insert into that
\* block is about to bump it without a slide
ReachesMaxSlickSize ==
    /\ last_change = "right"
    /\ \E key \in CrowdKeys, value \in Values :
         /\ LooksForSpace(Self, key, value)
         /\ BlockLength(Self, hash_block_index(key)) >= max_slick_size

\* keys of the hashers' tables that are offered to no operation of Spec at its base
\* bounds: the incoming keys of the scenario below
SpareKeys == {8, 9, 10}

\* The slide-left scenario with block i for block 4 and block i+1 for block 5: blocks i
\* and i+1 are on their anchors and filled to block_size with no gap, every other
\* block is as constructed, nothing has been bumped.
Scenario(self, i) ==
    /\ i + 1 \in Blocks
    /\ DOMAIN self.backyard = {}
    /\ \A b \in Blocks :
         /\ self.meta_data[b].threshold = 0
         /\ self.meta_data[b].offset = 0
         /\ self.meta_data[b].gap = IF b \in {i, i + 1} THEN 0 ELSE block_size

\* the keys that can be the extra insert into block i
ExtraKeys(self, i) ==
    { key \in Keys \cup SpareKeys : hash_block_index(key) = i /\ get(self, key) = None }

\* C18 Slide-left scenario: on a fresh table, after block 5 and block 4 have been
\* filled to length block_size, the next insert into block 4 borrows a cell from a
\* left neighbour's gap: block 4's length becomes block_size + 1, offset[4] is
\* unchanged, the gap of a block with index < 4 has decreased by 1, and all geometry
\* invariants hold.  (Stated for every block i that has a left neighbour.)
C18_SlideLeftScenario ==
    ~panicked =>
      \A i \in Blocks \ {0} :
        Scenario(Self, i) =>
          \A key \in ExtraKeys(Self, i), value \in Values :
            LET done == try_insert(Self, key, value)
            IN /\ ~done.self.panic
               /\ BlockLength(done.self, i) = block_size + 1
               /\ done.self.meta_data[i].offset = meta_data[i].offset
               /\ \E j \in Blocks :
                    j < i /\ done.self.meta_data[j].gap = meta_data[j].gap - 1
               /\ \A b \in Blocks :
                    /\ block_start(done.self, b) <= block_end(done.self, b)
                    /\ BlockLength(done.self, b) <= max_slick_size
                    /\ done.self.meta_data[b].offset <= max_offset

\* C18 as amended: in that scenario the insert does not borrow from the left.  The left
\* slide returns false because offset[i] = 0, no block left of i changes and offset[i]
\* is unchanged.  When there is a block beyond i+1 the cell comes from the right: block
\* i's length becomes block_size + 1, gap[i+2] decreases by 1, offset[i+1] and
\* offset[i+2] grow by 1 and no threshold changes.  When block i+1 is the last block no
\* slide is possible and block i is bumped, no offset changing.  The extents of all
\* blocks stay within the geometry invariants.
C18_SlideRightScenario ==
    ~panicked =>
      \A i \in Blocks :
        Scenario(Self, i) =>
          \A key \in ExtraKeys(Self, i), value \in Values :
            LET done == try_insert(Self, key, value)
            IN /\ ~done.self.panic
               /\ ~slide_gap_from_left(Self, i).ok
               /\ \A b \in Blocks : b < i => done.self.meta_data[b] = meta_data[b]
               /\ done.self.meta_data[i].offset = meta_data[i].offset
               /\ IF i + 2 \in Blocks
                  THEN /\ done.path = "right"
                       /\ BlockLength(done.self, i) = block_size + 1
                       /\ SlideEffect(Self, slide_gap_from_right(Self, i).self,
                                      i, i + 2, "right")
                       /\ \A b \in Blocks : done.self.meta_data[b].threshold = 0
                       /\ Offsets(done.self) = Offsets(slide_gap_from_right(Self, i).self)
                  ELSE /\ done.path \in {"bump_main", "bump_backyard"}
                       /\ BlockLength(done.self, i) <= block_size
                       /\ Offsets(done.self) = Offsets(Self)
               /\ \A b \in Blocks :
                    /\ block_start(done.self, b) <= block_end(done.self, b)
                    /\ block_end(done.self, b) <=
                         (IF b = number_of_blocks - 1 THEN main_table_size
                          ELSE block_start(done.self, b + 1))
                    /\ BlockLength(done.self, b) <= max_slick_size
                    /\ done.self.meta_data[b].offset <= max_offset

\* the scenario has been set up on a block with a left neighbour, both blocks holding
\* block_size entries, and a key of that block is there to be inserted
C18_Witness ==
    \E i \in Blocks \ {0} :
      /\ Scenario(Self, i)
      /\ BlockLength(Self, i) = block_size
      /\ BlockLength(Self, i + 1) = block_size
      /\ ExtraKeys(Self, i) # {}

\* the scenario has been set up on two blocks with a block to their right, and a key of
\* the left one is there to be inserted: the case of the right slide
ScenarioWithRightDonor ==
    \E i \in Blocks :
      /\ Scenario(Self, i)
      /\ i + 2 \in Blocks
      /\ ExtraKeys(Self, i) # {}

\* C19 remove_entry(&k) for a key k that the current threshold routes to the backyard
\* (H_t(k) < threshold[H_b(k)]) touches only the backyard: it leaves the cells within
\* block ranges, every gap and offset and no_elements_in_main_table unchanged, and its
\* result is the backyard's removal result.
C19_RemoveRoutedToBackyard ==
    ~panicked =>
      \A key \in CrowdKeys :
        LET i == hash_block_index(key)
            done == remove_entry(Self, key)
        IN (i \in Blocks /\ hash_threshold(key) < meta_data[i].threshold) =>
             /\ ~done.self.panic
             /\ RangeCells(done.self) = RangeCells(Self)
             /\ done.self.meta_data = meta_data
             /\ done.self.no_elements_in_main_table = no_elements_in_main_table
             /\ done.self.backyard = BackyardDel(backyard, key)
             /\ done.ret = IF key \in DOMAIN backyard
                           THEN Some(<<key, backyard[key]>>) ELSE None

\* a bump has just left entries in a block while sending others to the backyard: a
\* backyard key of that block is there to be removed, and so is a key routed to the
\* backyard that is not stored
C19_Witness ==
    /\ last_change = "bump_main"
    /\ \E key \in DOMAIN backyard :
         /\ hash_threshold(key) < meta_data[hash_block_index(key)].threshold
         /\ BlockLength(Self, hash_block_index(key)) >= 2
    /\ \E key \in CrowdKeys \ DOMAIN backyard :
         hash_threshold(key) < meta_data[hash_block_index(key)].threshold

\* C20 Swap-with-last removal: remove_entry(&k) for a key stored at position p of block
\* i copies the entry at end(i)-1 into p, raises gap[i] by 1, lowers
\* no_elements_in_main_table by 1, changes no offset, no threshold and no other block's
\* gap, and returns the removed pair; hence the next try_insert of a new key into block
\* i (with no bump) lands in the cell that held the block's former last entry.
C20_SwapWithLast ==
    ~panicked =>
      \A key \in Keys :
        LET i == hash_block_index(key)
            done == remove_entry(Self, key)
        IN (i \in Blocks /\ CellsOf(Self, key) # {}) =>
             \E p \in CellsOf(Self, key) :
               LET last == block_end(Self, i) - 1
               IN /\ ~done.self.panic
                  /\ done.ret = Some(main_table[p])
                  /\ main_table[p][1] = key
                  /\ done.self.main_table =
                       [main_table EXCEPT ![p] = main_table[last]]
                  /\ done.self.meta_data =
                       [meta_data EXCEPT ![i].gap = meta_data[i].gap + 1]
                  /\ done.self.no_elements_in_main_table = no_elements_in_main_table - 1
                  /\ done.self.backyard = backyard
                  /\ \A other \in Keys \cup SpareKeys, value \in Values :
                       LET again == try_insert(done.self, other, value)
                       IN (/\ hash_block_index(other) = i
                           /\ ~Stored(done.self, other)
                           /\ again.path \in {"gap", "left", "right"})
                            => /\ again.ret = Inserted(MainRef(last))
                               /\ again.self.main_table[last] = <<other, value>>

\* a block that a slide has let grow beyond block_size holds at least three entries,
\* and the key in its first cell is there to be removed while a new key of the block is
\* there to be inserted afterwards
C20_Witness ==
    \E key \in Keys :
      LET i == hash_block_index(key)
      IN /\ i \in Blocks
         /\ BlockLength(Self, i) > block_size
         /\ BlockLength(Self, i) >= 3
         /\ block_start(Self, i) \in CellsOf(Self, key)
         /\ \E other \in Keys \cup SpareKeys, value \in Values :
              /\ hash_block_index(other) = i
              /\ ~Stored(Self, other)
              /\ try_insert(remove_entry(Self, key).self, other, value).path = "gap"

\* C21: from every reachable state every try_insert, get and remove_entry call ends:
\* the bump scan of a try_insert ends after at most as many iterations as the block is
\* long when the scan starts, each walk and each shift loop of a slide ends within
\* number_of_blocks iterations, and the searches of try_insert, get and remove_entry
\* and the minimum over the block visit at most the cells of the block. (A call that
\* aborts has ended.)
AllKeys == Keys \cup SpareKeys \cup CrowdKeys

C21_Termination ==
    ~panicked =>
      \A key \in AllKeys :
        LET loops == TryInsertLoops(Self, key)
            length == IF hash_block_index(key) \in Blocks
                      THEN RangeLen(block_range(Self, hash_block_index(key)))
                      ELSE 0
        IN /\ loops.scan <= loops.scanned
           /\ loops.scan <= LoopFuel
           /\ loops.left.walk <= number_of_blocks
           /\ loops.left.shift <= number_of_blocks
           /\ loops.right.walk <= number_of_blocks
           /\ loops.right.shift <= number_of_blocks
           /\ loops.search <= length
           /\ loops.minimum <= length
           /\ GetLoops(Self, key) <= length
           /\ RemoveEntryLoops(Self, key) <= length

\* the last call slid a gap, and a bump scan is about to compact the block after it has
\* advanced over an entry that stays
C21_Witness ==
    /\ ~panicked
    /\ last_change \in {"left", "right"}
    /\ \E key \in AllKeys :
         LET i == hash_block_index(key)
             loops == TryInsertLoops(Self, key)
             after == try_insert(Self, key, 1).self
         IN /\ i \in Blocks
            /\ loops.scan >= 2
            /\ loops.scan = loops.scanned
            /\ ~after.panic
            /\ hash_threshold(Self.main_table[block_start(Self, i)][1])
                 >= after.meta_data[i].threshold
            /\ BlockLength(after, i) < BlockLength(Self, i)

\* a slide whose walk and whose shift loop both run is about to happen
SlideLoopsRun ==
    /\ ~panicked
    /\ \E key \in AllKeys :
         LET loops == TryInsertLoops(Self, key)
         IN \/ (loops.left.walk >= 1 /\ loops.left.shift >= 1)
            \/ (loops.right.walk >= 1 /\ loops.right.shift >= 1)

====
